---------------------------- MODULE Spec2Model ----------------------------
(***************************************************************************)
(* Thread-based process simulation and dining philosophers.                *)
(*                                                                         *)
(* The model follows src/DiningPhilosophers.cpp, src/ProcessSimulator.cpp  *)
(* and src/main.cpp.  Every thread is a program counter that names the     *)
(* next operation on shared state the thread will perform: a lock or an    *)
(* unlock of a std::mutex, or a write to std::cout.  Thread-local work     *)
(* (building the message, sleep_for, the loop test) is folded into the     *)
(* step that precedes the next shared operation.                           *)
(*                                                                         *)
(* std::cout is kept as the current incomplete line (lineBuf), the number  *)
(* of complete lines (nLines), whether some complete line was not exactly  *)
(* one prefix followed by its caller's message (garbled), and the number   *)
(* of lines of each kind every philosopher has written (emitted).  The     *)
(* banners main() prints while no worker thread exists are left out.       *)
(***************************************************************************)
EXTENDS Integers, Sequences, FiniteSets, TLC

VARIABLES
    iterations,   \* DiningPhilosophers::iterations
    forks,        \* DiningPhilosophers::forks: the thread that locked each mutex, or Free
    pc,           \* philosopher thread -> next operation
    cycle,        \* philosopherWorker's loop variable i, per thread
    held,         \* philosopher thread -> fork indices it locked and has not unlocked, in lock order
    forkOps,      \* philosopher thread -> how many lock() and unlock() calls on forks it has completed, and
                  \* (SpecCycles) how often another thread locked the fork it is calling lock() on as its second
    philLog,      \* DiningPhilosophers::coutMutex and the lines written through DiningPhilosophers::log
    simPc,        \* position of the thread running DiningPhilosophers::simulate
    simI,         \* simulate's loop variable i
    philosophers, \* simulate's array of threads: the ids given to the threads created so far
    mainPc,       \* position of main()
    file,         \* loadProcesses' ifstream: whether it opens, and the lines not read yet
    lineNumber,   \* loadProcesses' lineNumber (0 outside loadProcesses)
    processes,    \* ProcessSimulator::processes
    loadResult,   \* what loadProcesses returned: "none" while it has not returned
    diag,         \* the diagnostic loadProcesses wrote to std::cerr and its line number
    exitStatus,   \* what main() returned: Running while it has not
    execI,        \* executeProcesses' position in its two loops
    threads,      \* executeProcesses' vector of threads: the processes given to the threads created
    procPc,       \* process thread -> next operation
    procLog       \* ProcessSimulator::coutMutex and the lines written through ProcessSimulator::log

dinerVars == <<iterations, forks, pc, cycle, held, forkOps>>
simVars   == <<simPc, simI, philosophers>>
mainVars  == <<mainPc, file, lineNumber, processes, loadResult, diag, exitStatus>>
procVars  == <<execI, threads, procPc, procLog>>
vars      == <<dinerVars, philLog, simVars, mainVars, procVars>>

-----------------------------------------------------------------------------
(* Bounds and program constants *)

NUM_PHILOSOPHERS == 5

\* Largest iteration count given to the DiningPhilosophers constructor.
MaxIter == 1

\* The iteration count of the runs that repeat the cycle.
MaxCycles == 2

\* Largest number of lines of processes.txt.
\* How many times the clock advances in the runs that read it.
MaxTicks == 3

MaxLines == 2

Phil == 0 .. (NUM_PHILOSOPHERS - 1)
Fork == 0 .. (NUM_PHILOSOPHERS - 1)
Proc == 1 .. MaxLines

\* An unlocked std::mutex.
Free == -1

\* main() has not returned.
Running == -1

\* Nothing was written to std::cerr.
NoDiag == [what |-> "", line |-> 0]

\* processes.txt does not exist or cannot be read.
NoFile == [opens |-> FALSE, lines |-> <<>>]

\* DiningPhilosophers philSim(3), capped by MaxIter.
MainIterations == IF MaxIter < 3 THEN MaxIter ELSE 3

Kinds == {"Start", "Think", "Wait", "Acquired", "Eat", "Released", "Completed"}
ProcKinds == {"Started", "Finished"}

-----------------------------------------------------------------------------
(* log(), the same text in DiningPhilosophers and ProcessSimulator.  The   *)
(* state of a logger is a record:                                          *)
(*   mutex    coutMutex: the thread that locked it, or Free                *)
(*   stage    thread -> position inside log(): 0 outside or before the     *)
(*            lock, 1 locked, 2 prefix written                             *)
(*   lineBuf  std::cout: the chunks of the current incomplete line         *)
(*   nLines   std::cout: number of complete lines                          *)
(*   garbled  std::cout: some complete line was not exactly one prefix     *)
(*            followed by the same caller's message                        *)
(*   emitted  thread -> kind of line -> complete lines written             *)
(*   nLocks   number of times coutMutex has been locked                    *)
(*   ticket   thread -> the value of nLocks when it locked coutMutex       *)
(*            (0 while it is not inside)                                   *)
(*   last     the ticket of the call that completed the latest line        *)
(*   now      steady_clock: milliseconds elapsed since startTime           *)
(*   ticks    number of times the clock has advanced                       *)
(*   stamp    thread -> the timestamp its call of getTimestamp() returned  *)
(*   lastStamp the timestamp of the latest complete line                   *)

\* lock() returns only when the mutex is free.
CanLock(m) == m = Free

\* getTimestamp(): the elapsed milliseconds as seconds with three decimals,
\* "sec.milli".
getTimestamp(ms) == [sec |-> ms \div 1000, milli |-> ms % 1000]

NewLog(T, K) ==
    [mutex   |-> Free,
     stage   |-> [t \in T |-> 0],
     lineBuf |-> <<>>,
     nLines  |-> 0,
     garbled |-> FALSE,
     emitted |-> [t \in T |-> [k \in K |-> 0]],
     nLocks  |-> 0,
     ticket  |-> [t \in T |-> 0],
     last    |-> 0,
     now     |-> 0,
     ticks   |-> 0,
     stamp   |-> [t \in T |-> getTimestamp(0)],
     lastStamp |-> getTimestamp(0)]

\* std::lock_guard<std::mutex> lock(coutMutex);
Locked(l, t) ==
    [l EXCEPT !.mutex = t,
              !.nLocks = @ + 1,
              !.ticket[t] = l.nLocks + 1,
              !.stage[t] = 1]

\* std::cout << "[" << getTimestamp() << "s] "
Prefixed(l, t) ==
    [l EXCEPT !.lineBuf = Append(@, <<t, "prefix">>),
              !.stamp[t] = getTimestamp(l.now),
              !.stage[t] = 2]

\* The unlock at the end of the lock_guard's scope.
Unlocked(l, t) == [l EXCEPT !.mutex = Free]

\* << message << std::endl; and the lock_guard's scope ends.
Messaged(l, t, kind) ==
    LET line == Append(l.lineBuf, <<t, kind>>)
    IN  Unlocked([l EXCEPT !.lineBuf = <<>>,
                           !.nLines = @ + 1,
                           !.garbled = (@ \/ line # <<<<t, "prefix">>, <<t, kind>>>>),
                           !.emitted[t][kind] = @ + 1,
                           !.last = l.ticket[t],
                           !.lastStamp = l.stamp[t],
                           !.ticket[t] = 0,
                           !.stage[t] = 0], t)

\* One whole call of log(), not interrupted.
Logged(l, t, kind) == Messaged(Prefixed(Locked(l, t), t), t, kind)

-----------------------------------------------------------------------------
(* DiningPhilosophers: fork assignment *)

leftFork(id) == id

\* A right fork that is the agent's left fork again.
rightForkSame(id) == id

\* The fork on the other side: the one before id around the table.
rightForkBefore(id) == (id + NUM_PHILOSOPHERS - 1) % NUM_PHILOSOPHERS

rightFork(id) == (id + 1) % NUM_PHILOSOPHERS

\* The order without the comparison: always the left fork first.
forkOrderLeftFirst(id) == <<leftFork(id), rightFork(id)>>

\* pickupForks: the two forks in the order it locks them,
\*   int firstFork  = (left < right) ? left : right;
\*   int secondFork = (left < right) ? right : left;
forkOrder(id) ==
    IF leftFork(id) < rightFork(id)
    THEN <<leftFork(id), rightFork(id)>>
    ELSE <<rightFork(id), leftFork(id)>>

firstFork(id) == forkOrder(id)[1]

secondFork(id) == forkOrder(id)[2]

-----------------------------------------------------------------------------
(* Control flow of philosopherWorker.  A program counter names the next    *)
(* shared operation; the Log* counters are the eight calls of log().       *)

LogSites ==
    {"LogStart", "LogThink", "LogWait", "LogAcq1", "LogAcq2", "LogEat",
     "LogReleased", "LogCompleted"}

\* The kind of line each call of log() writes.
KindOf(site) ==
    CASE site = "LogStart"     -> "Start"
      [] site = "LogThink"     -> "Think"
      [] site = "LogWait"      -> "Wait"
      [] site = "LogAcq1"      -> "Acquired"
      [] site = "LogAcq2"      -> "Acquired"
      [] site = "LogEat"       -> "Eat"
      [] site = "LogReleased"  -> "Released"
      [] site = "LogCompleted" -> "Completed"

\* The loop test with <= for <.
LoopTestInclusive(i) == IF i <= iterations THEN "LogStart" ELSE "LogCompleted"

\* for (int i = 0; i < sim->iterations; i++): where the loop test sends the thread.
LoopTest(i) == IF i < iterations THEN "LogStart" ELSE "LogCompleted"

\* The operation that follows the return of log() at each call site.
AfterLog(id, site) ==
    CASE site = "LogStart"     -> "LogThink"
      [] site = "LogThink"     -> "LogWait"      \* think(): sleep, then pickupForks
      [] site = "LogWait"      -> "LockFirst"
      [] site = "LogAcq1"      -> "LockSecond"
      [] site = "LogAcq2"      -> "LogEat"
      [] site = "LogEat"       -> "UnlockLeft"   \* eat(): sleep, then putdownForks
      [] site = "LogReleased"  -> LoopTest(cycle[id] + 1)
      [] site = "LogCompleted" -> "Terminated"

\* log() returns to its call site in philosopherWorker.
Returned(id) ==
    /\ pc' = [pc EXCEPT ![id] = AfterLog(id, pc[id])]
    /\ cycle' = [cycle EXCEPT ![id] = IF pc[id] = "LogReleased" THEN @ + 1 ELSE @]
    /\ UNCHANGED <<iterations, forks, held, forkOps>>

-----------------------------------------------------------------------------
(* Initial states *)

\* A DiningPhilosophers object constructed with k iterations.
InitDiners(k) ==
    /\ iterations = k
    /\ forks = [f \in Fork |-> Free]
    /\ pc = [p \in Phil |-> "NotStarted"]
    /\ cycle = [p \in Phil |-> 0]
    /\ held = [p \in Phil |-> <<>>]
    /\ forkOps = [p \in Phil |-> [lock |-> 0, unlock |-> 0, overtaken |-> 0]]
    /\ philLog = NewLog(Phil, Kinds)
    /\ simI = 0
    /\ philosophers = <<>>

\* A ProcessSimulator object, constructed.
InitProcs ==
    /\ processes = <<>>
    /\ lineNumber = 0
    /\ loadResult = "none"
    /\ diag = NoDiag
    /\ execI = 0
    /\ threads = <<>>
    /\ procPc = [j \in Proc |-> "NotStarted"]
    /\ procLog = NewLog(Proc, ProcKinds)

\* The dining simulation alone: a DiningPhilosophers object has been
\* constructed with some iteration count and simulate() has been entered.
Init ==
    /\ \E k \in 0 .. MaxIter : InitDiners(k)
    /\ simPc = "Spawn"
    /\ InitProcs
    /\ file = NoFile
    /\ mainPc = "Simulate"
    /\ exitStatus = Running

-----------------------------------------------------------------------------
(* DiningPhilosophers::log, called by philosopher id *)

\* log() without the lock_guard: the caller goes on to write at once.
LogLockNoWait(id) ==
    /\ pc[id] \in LogSites
    /\ philLog.stage[id] = 0
    /\ philLog' = Locked(philLog, id)
    /\ UNCHANGED <<dinerVars, simVars, mainVars, procVars>>

\* std::lock_guard<std::mutex> lock(coutMutex);
LogLock(id) ==
    /\ pc[id] \in LogSites
    /\ philLog.stage[id] = 0
    /\ CanLock(philLog.mutex)
    /\ philLog' = Locked(philLog, id)
    /\ UNCHANGED <<dinerVars, simVars, mainVars, procVars>>

\* std::cout << "[" << getTimestamp() << "s] "
LogPrefix(id) ==
    /\ pc[id] \in LogSites
    /\ philLog.stage[id] = 1
    /\ philLog' = Prefixed(philLog, id)
    /\ UNCHANGED <<dinerVars, simVars, mainVars, procVars>>

\* << message << std::endl; the lock_guard unlocks and log() returns.
LogMessage(id) ==
    /\ pc[id] \in LogSites
    /\ philLog.stage[id] = 2
    /\ philLog' = Messaged(philLog, id, KindOf(pc[id]))
    /\ Returned(id)
    /\ UNCHANGED <<simVars, mainVars, procVars>>

\* The whole call, when no other thread runs between its steps.
LogCall(id) ==
    /\ pc[id] \in LogSites
    /\ philLog.stage[id] = 0
    /\ CanLock(philLog.mutex)
    /\ philLog' = Logged(philLog, id, KindOf(pc[id]))
    /\ Returned(id)
    /\ UNCHANGED <<simVars, mainVars, procVars>>

-----------------------------------------------------------------------------
(* DiningPhilosophers::pickupForks and putdownForks *)

\* forks[firstFork].lock();
LockFirst(id) ==
    /\ pc[id] = "LockFirst"
    /\ CanLock(forks[firstFork(id)])
    /\ forks' = [forks EXCEPT ![firstFork(id)] = id]
    /\ held' = [held EXCEPT ![id] = Append(@, firstFork(id))]
    /\ pc' = [pc EXCEPT ![id] = "LogAcq1"]
    /\ forkOps' = [forkOps EXCEPT ![id].lock = @ + 1]
    /\ UNCHANGED <<iterations, cycle, philLog, simVars, mainVars, procVars>>

\* A lock of the second fork that does not wait for it to be free.
LockSecondNoWait(id) ==
    /\ pc[id] = "LockSecond"
    /\ forks' = [forks EXCEPT ![secondFork(id)] = id]
    /\ held' = [held EXCEPT ![id] = Append(@, secondFork(id))]
    /\ pc' = [pc EXCEPT ![id] = "LogAcq2"]
    /\ forkOps' = [forkOps EXCEPT ![id].lock = @ + 1]
    /\ UNCHANGED <<iterations, cycle, philLog, simVars, mainVars, procVars>>

\* forks[secondFork].lock();
LockSecond(id) ==
    /\ pc[id] = "LockSecond"
    /\ CanLock(forks[secondFork(id)])
    /\ forks' = [forks EXCEPT ![secondFork(id)] = id]
    /\ held' = [held EXCEPT ![id] = Append(@, secondFork(id))]
    /\ pc' = [pc EXCEPT ![id] = "LogAcq2"]
    /\ forkOps' = [forkOps EXCEPT ![id].lock = @ + 1]
    /\ UNCHANGED <<iterations, cycle, philLog, simVars, mainVars, procVars>>

\* The sequence s without its entries equal to f.
Without(s, f) == SelectSeq(s, LAMBDA x : x # f)

\* putdownForks that leaves the left fork locked.
UnlockLeftSkipped(id) ==
    /\ pc[id] = "UnlockLeft"
    /\ pc' = [pc EXCEPT ![id] = "UnlockRight"]
    /\ UNCHANGED <<iterations, forks, cycle, held, forkOps, philLog, simVars,
                   mainVars, procVars>>

\* forks[left].unlock();
UnlockLeft(id) ==
    /\ pc[id] = "UnlockLeft"
    /\ forks' = [forks EXCEPT ![leftFork(id)] = Free]
    /\ held' = [held EXCEPT ![id] = Without(@, leftFork(id))]
    /\ pc' = [pc EXCEPT ![id] = "UnlockRight"]
    /\ forkOps' = [forkOps EXCEPT ![id].unlock = @ + 1]
    /\ UNCHANGED <<iterations, cycle, philLog, simVars, mainVars, procVars>>

\* forks[right].unlock();
UnlockRight(id) ==
    /\ pc[id] = "UnlockRight"
    /\ forks' = [forks EXCEPT ![rightFork(id)] = Free]
    /\ held' = [held EXCEPT ![id] = Without(@, rightFork(id))]
    /\ pc' = [pc EXCEPT ![id] = "LogReleased"]
    /\ forkOps' = [forkOps EXCEPT ![id].unlock = @ + 1]
    /\ UNCHANGED <<iterations, cycle, philLog, simVars, mainVars, procVars>>

\* philosopherWorker without the call of think().
AfterLogAtNoThink(site, c) ==
    CASE site = "LogStart"     -> <<"LogWait", c>>
      [] site = "LogThink"     -> <<"LogWait", c>>
      [] site = "LogWait"      -> <<"LockFirst", c>>
      [] site = "LogAcq1"      -> <<"LockSecond", c>>
      [] site = "LogAcq2"      -> <<"LogEat", c>>
      [] site = "LogEat"       -> <<"UnlockLeft", c>>
      [] site = "LogReleased"  -> <<LoopTest(c + 1), c + 1>>
      [] site = "LogCompleted" -> <<"Terminated", c>>

\* The statement after the call of log() at site, in a thread whose loop
\* variable is c, and the loop variable then.
AfterLogAt(site, c) ==
    CASE site = "LogStart"     -> <<"LogThink", c>>
      [] site = "LogThink"     -> <<"LogWait", c>>
      [] site = "LogWait"      -> <<"LockFirst", c>>
      [] site = "LogAcq1"      -> <<"LockSecond", c>>
      [] site = "LogAcq2"      -> <<"LogEat", c>>
      [] site = "LogEat"       -> <<"UnlockLeft", c>>
      [] site = "LogReleased"  -> <<LoopTest(c + 1), c + 1>>
      [] site = "LogCompleted" -> <<"Terminated", c>>

\* The thread runs from the call of log() at site up to its next fork
\* operation (or its end): the logger, the statement and the loop variable
\* it arrives with.
RECURSIVE LogRunFrom(_, _, _, _)
LogRunFrom(l, id, site, c) ==
    IF site \notin LogSites THEN [log |-> l, pc |-> site, cycle |-> c]
    ELSE LET next == AfterLogAt(site, c)
         IN  LogRunFrom(Logged(l, id, KindOf(site)), id, next[1], next[2])

\* The counts after thread id has locked fork f: one more lock for id, and
\* one more overtaking for every other thread that is in
\* forks[secondFork].lock() on the same fork.
LockCounted(ops, id, f) ==
    [w \in Phil |->
        IF w = id THEN [ops[w] EXCEPT !.lock = @ + 1, !.overtaken = 0]
        ELSE IF pc[w] = "LockSecond" /\ secondFork(w) = f
             THEN [ops[w] EXCEPT !.overtaken = @ + 1]
             ELSE ops[w]]

\* forks[firstFork].lock(); and the call of log() that follows it.
LockFirstLogged(id) ==
    /\ pc[id] = "LockFirst"
    /\ CanLock(forks[firstFork(id)])
    /\ CanLock(philLog.mutex)
    /\ forks' = [forks EXCEPT ![firstFork(id)] = id]
    /\ held' = [held EXCEPT ![id] = Append(@, firstFork(id))]
    /\ forkOps' = LockCounted(forkOps, id, firstFork(id))
    /\ LET r == LogRunFrom(philLog, id, "LogAcq1", cycle[id])
       IN  /\ philLog' = r.log
           /\ pc' = [pc EXCEPT ![id] = r.pc]
    /\ UNCHANGED <<iterations, cycle, simVars, mainVars, procVars>>

\* forks[secondFork].lock(); and the calls of log() that follow it, in
\* pickupForks and in eat.
LockSecondLogged(id) ==
    /\ pc[id] = "LockSecond"
    /\ CanLock(forks[secondFork(id)])
    /\ CanLock(philLog.mutex)
    /\ forks' = [forks EXCEPT ![secondFork(id)] = id]
    /\ held' = [held EXCEPT ![id] = Append(@, secondFork(id))]
    /\ forkOps' = LockCounted(forkOps, id, secondFork(id))
    /\ LET r == LogRunFrom(philLog, id, "LogAcq2", cycle[id])
       IN  /\ philLog' = r.log
           /\ pc' = [pc EXCEPT ![id] = r.pc]
    /\ UNCHANGED <<iterations, cycle, simVars, mainVars, procVars>>

\* All the calls of log() the thread makes before its next fork operation,
\* not interrupted.
LogRun(id) ==
    /\ pc[id] \in LogSites
    /\ philLog.stage[id] = 0
    /\ CanLock(philLog.mutex)
    /\ LET r == LogRunFrom(philLog, id, pc[id], cycle[id])
       IN  /\ philLog' = r.log
           /\ pc' = [pc EXCEPT ![id] = r.pc]
           /\ cycle' = [cycle EXCEPT ![id] = r.cycle]
    /\ UNCHANGED <<iterations, forks, held, forkOps>>
    /\ UNCHANGED <<simVars, mainVars, procVars>>

\* The fork operations of one philosopher thread.
ForkStep(id) ==
    \/ LockFirst(id)
    \/ LockSecond(id)
    \/ UnlockLeft(id)
    \/ UnlockRight(id)

\* A philosopher thread, each call of log() one step.
philosopherWorker(id) == LogCall(id) \/ ForkStep(id)

\* A philosopher thread, the calls of log() between two fork operations
\* one step, a lock of a fork and the calls of log() after it one step.
philosopherWorkerRuns(id) ==
    \/ LogRun(id)
    \/ LockFirstLogged(id)
    \/ LockSecondLogged(id)
    \/ UnlockLeft(id)
    \/ UnlockRight(id)

\* A philosopher thread, each mutex operation and each write one step.
philosopherWorkerFine(id) ==
    \/ LogLock(id)
    \/ LogPrefix(id)
    \/ LogMessage(id)
    \/ ForkStep(id)

-----------------------------------------------------------------------------
(* DiningPhilosophers::simulate *)

\* philosophers[i] = std::thread(philosopherWorker, i, this);
SimSpawn ==
    /\ simPc = "Spawn"
    /\ simI < NUM_PHILOSOPHERS
    /\ pc' = [pc EXCEPT ![simI] = LoopTest(0)]
    /\ philosophers' = Append(philosophers, simI)
    /\ simI' = simI + 1
    /\ UNCHANGED <<iterations, forks, cycle, held, forkOps, philLog, simPc, mainVars, procVars>>

\* The first loop ends; the second starts at i = 0.
SimSpawned ==
    /\ simPc = "Spawn"
    /\ simI = NUM_PHILOSOPHERS
    /\ simPc' = "Join"
    /\ simI' = 0
    /\ UNCHANGED <<dinerVars, philLog, philosophers, mainVars, procVars>>

\* A join that returns while the thread still runs (a detach).
SimJoinNoWait ==
    /\ simPc = "Join"
    /\ simI < NUM_PHILOSOPHERS
    /\ simI' = simI + 1
    /\ UNCHANGED <<dinerVars, philLog, simPc, philosophers, mainVars, procVars>>

\* philosophers[i].join(); returns once thread i has ended.
SimJoin ==
    /\ simPc = "Join"
    /\ simI < NUM_PHILOSOPHERS
    /\ pc[philosophers[simI + 1]] = "Terminated"
    /\ simI' = simI + 1
    /\ UNCHANGED <<dinerVars, philLog, simPc, philosophers, mainVars, procVars>>

\* simulate() returns.
SimReturn ==
    /\ simPc = "Join"
    /\ simI = NUM_PHILOSOPHERS
    /\ simPc' = "Returned"
    /\ UNCHANGED <<dinerVars, philLog, simI, philosophers, mainVars, procVars>>

simulate == SimSpawn \/ SimSpawned \/ SimJoin \/ SimReturn

-----------------------------------------------------------------------------
(* The dining simulation *)

Next ==
    \/ \E id \in Phil : philosopherWorker(id)
    \/ simulate

Spec == Init /\ [][Next]_vars

\* The dining simulation with MaxCycles cycles for every philosopher.
InitCycles ==
    /\ InitDiners(MaxCycles)
    /\ simPc = "Spawn"
    /\ InitProcs
    /\ file = NoFile
    /\ mainPc = "Simulate"
    /\ exitStatus = Running

NextCycles ==
    \/ \E id \in Phil : philosopherWorkerRuns(id)
    \/ simulate

SpecCycles == InitCycles /\ [][NextCycles]_vars

\* steady_clock advances, by a millisecond or by nearly a second.
ClockTick ==
    /\ philLog.ticks < MaxTicks
    /\ \E d \in {1, 999} :
           philLog' = [philLog EXCEPT !.now = @ + d, !.ticks = @ + 1]
    /\ UNCHANGED <<dinerVars, simVars, mainVars, procVars>>

\* The dining simulation with no cycle: every philosopher thread only writes
\* its completion line.
InitClock ==
    /\ InitDiners(0)
    /\ simPc = "Spawn"
    /\ InitProcs
    /\ file = NoFile
    /\ mainPc = "Simulate"
    /\ exitStatus = Running

\* The calls of log() of that run, step by step, while the clock advances.
NextClock ==
    \/ ClockTick
    \/ \E id \in Phil : LogLock(id) \/ LogPrefix(id) \/ LogMessage(id)
    \/ simulate

SpecClock == InitClock /\ [][NextClock]_vars

NextFine ==
    \/ \E id \in Phil : philosopherWorkerFine(id)
    \/ simulate

SpecFine == Init /\ [][NextFine]_vars

-----------------------------------------------------------------------------
(* processes.txt: a line is the sequence of its whitespace-separated       *)
(* tokens; the empty sequence is an empty line.                            *)

Tokens == {"0", "1", "3", "5", "-2", "x"}

\* operator>> reads an int from the token.
IsInt(tok) == tok \in {"0", "1", "3", "5", "-2"}

\* The int it reads.
ParseInt(tok) ==
    CASE tok = "0"  -> 0
      [] tok = "1"  -> 1
      [] tok = "3"  -> 3
      [] tok = "5"  -> 5
      [] tok = "-2" -> -2

Lines ==
    {<<>>, <<"1", "3">>, <<"0", "5">>, <<"1", "-2">>, <<"x", "3">>, <<"5">>}

\* Every readable file of at most n lines.
Files(n) ==
    {[opens |-> TRUE, lines |-> ls] : ls \in UNION {[1 .. m -> Lines] : m \in 0 .. n}}

\* if (!(iss >> pid >> burstTime)): the extraction succeeds.
Extracts(line) ==
    /\ Len(line) >= 2
    /\ IsInt(line[1])
    /\ IsInt(line[2])

\* The validation with pid < 0 for pid <= 0.
LineOutcomePidZero(line) ==
    IF line = <<>> THEN "skip"
    ELSE IF ~Extracts(line) THEN "format"
    ELSE IF ParseInt(line[1]) < 0 THEN "pid"
    ELSE IF ParseInt(line[2]) <= 0 THEN "burst"
    ELSE "push"

\* What loadProcesses does with one line it has read: "skip", one of the
\* three diagnostics, or "push".
LineOutcome(line) ==
    IF line = <<>> THEN "skip"
    ELSE IF ~Extracts(line) THEN "format"
    ELSE IF ParseInt(line[1]) <= 0 THEN "pid"
    ELSE IF ParseInt(line[2]) <= 0 THEN "burst"
    ELSE "push"

-----------------------------------------------------------------------------
(* ProcessSimulator::loadProcesses *)

\* std::ifstream file(filename); if (!file.is_open()) return false;
LoadOpen ==
    /\ mainPc = "Open"
    /\ IF ~file.opens
       THEN /\ diag' = [what |-> "open", line |-> 0]
            /\ loadResult' = "false"
            /\ mainPc' = "Loaded"
       ELSE /\ mainPc' = "Read"
            /\ UNCHANGED <<diag, loadResult>>
    /\ UNCHANGED <<file, lineNumber, processes, exitStatus>>
    /\ UNCHANGED <<dinerVars, philLog, simVars, procVars>>

\* One turn of while (std::getline(file, line)).
LoadLine ==
    /\ mainPc = "Read"
    /\ file.lines # <<>>
    /\ LET line == Head(file.lines)
           what == LineOutcome(line)
       IN  /\ file' = [file EXCEPT !.lines = Tail(@)]
           /\ processes' =
                  IF what = "push"
                  THEN Append(processes,
                              [pid |-> ParseInt(line[1]), burstTime |-> ParseInt(line[2])])
                  ELSE processes
           /\ IF what \in {"format", "pid", "burst"}
              THEN /\ diag' = [what |-> what, line |-> lineNumber + 1]
                   /\ loadResult' = "false"
                   /\ mainPc' = "Loaded"
                   /\ lineNumber' = 0
              ELSE /\ lineNumber' = lineNumber + 1
                   /\ UNCHANGED <<diag, loadResult, mainPc>>
    /\ UNCHANGED exitStatus
    /\ UNCHANGED <<dinerVars, philLog, simVars, procVars>>

\* getline fails at the end of the file: file.close(); the warning; return true.
LoadEnd ==
    /\ mainPc = "Read"
    /\ file.lines = <<>>
    /\ diag' = IF processes = <<>> THEN [what |-> "warning", line |-> 0] ELSE diag
    /\ loadResult' = "true"
    /\ mainPc' = "Loaded"
    /\ lineNumber' = 0
    /\ UNCHANGED <<file, processes, exitStatus>>
    /\ UNCHANGED <<dinerVars, philLog, simVars, procVars>>

loadProcesses == LoadOpen \/ LoadLine \/ LoadEnd

-----------------------------------------------------------------------------
(* ProcessSimulator::processWorker and ProcessSimulator::log *)

ProcLogSites == {"LogStarted", "LogFinished"}

ProcKindOf(site) == IF site = "LogStarted" THEN "Started" ELSE "Finished"

\* The operation that follows the return of log() in processWorker.
ProcAfterLog(site) == IF site = "LogStarted" THEN "LogFinished" ELSE "Terminated"

\* std::lock_guard<std::mutex> lock(coutMutex);
ProcLogLock(j) ==
    /\ procPc[j] \in ProcLogSites
    /\ procLog.stage[j] = 0
    /\ CanLock(procLog.mutex)
    /\ procLog' = Locked(procLog, j)
    /\ UNCHANGED <<execI, threads, procPc>>
    /\ UNCHANGED <<dinerVars, philLog, simVars, mainVars>>

\* std::cout << "[" << getTimestamp() << "s] "
ProcLogPrefix(j) ==
    /\ procPc[j] \in ProcLogSites
    /\ procLog.stage[j] = 1
    /\ procLog' = Prefixed(procLog, j)
    /\ UNCHANGED <<execI, threads, procPc>>
    /\ UNCHANGED <<dinerVars, philLog, simVars, mainVars>>

\* << message << std::endl; the lock_guard unlocks and log() returns.
ProcLogMessage(j) ==
    /\ procPc[j] \in ProcLogSites
    /\ procLog.stage[j] = 2
    /\ procLog' = Messaged(procLog, j, ProcKindOf(procPc[j]))
    /\ procPc' = [procPc EXCEPT ![j] = ProcAfterLog(procPc[j])]
    /\ UNCHANGED <<execI, threads>>
    /\ UNCHANGED <<dinerVars, philLog, simVars, mainVars>>

processWorker(j) == ProcLogLock(j) \/ ProcLogPrefix(j) \/ ProcLogMessage(j)

-----------------------------------------------------------------------------
(* ProcessSimulator::executeProcesses *)

\* threads.push_back(std::thread(processWorker, process.pid, process.burstTime, this));
ExecSpawn ==
    /\ mainPc = "Execute"
    /\ execI < Len(processes)
    /\ threads' = Append(threads, processes[execI + 1])
    /\ procPc' = [procPc EXCEPT ![execI + 1] = "LogStarted"]
    /\ execI' = execI + 1
    /\ UNCHANGED procLog
    /\ UNCHANGED <<dinerVars, philLog, simVars, mainVars>>

\* The first loop ends; the second starts at the first thread.
ExecSpawned ==
    /\ mainPc = "Execute"
    /\ execI = Len(processes)
    /\ mainPc' = "ExecJoin"
    /\ execI' = 0
    /\ UNCHANGED <<threads, procPc, procLog>>
    /\ UNCHANGED <<file, lineNumber, processes, loadResult, diag, exitStatus>>
    /\ UNCHANGED <<dinerVars, philLog, simVars>>

\* A join that returns while the thread still runs (a detach).
ExecJoinNoWait ==
    /\ mainPc = "ExecJoin"
    /\ execI < Len(threads)
    /\ execI' = execI + 1
    /\ UNCHANGED <<threads, procPc, procLog>>
    /\ UNCHANGED <<dinerVars, philLog, simVars, mainVars>>

\* thread.join(); returns once the thread has ended.
ExecJoin ==
    /\ mainPc = "ExecJoin"
    /\ execI < Len(threads)
    /\ procPc[execI + 1] = "Terminated"
    /\ execI' = execI + 1
    /\ UNCHANGED <<threads, procPc, procLog>>
    /\ UNCHANGED <<dinerVars, philLog, simVars, mainVars>>

\* executeProcesses() returns.
ExecReturn ==
    /\ mainPc = "ExecJoin"
    /\ execI = Len(threads)
    /\ mainPc' = "Construct"
    /\ UNCHANGED procVars
    /\ UNCHANGED <<file, lineNumber, processes, loadResult, diag, exitStatus>>
    /\ UNCHANGED <<dinerVars, philLog, simVars>>

executeProcesses == ExecSpawn \/ ExecSpawned \/ ExecJoin \/ ExecReturn

-----------------------------------------------------------------------------
(* main *)

\* if (!procSim.loadProcesses("processes.txt")) return 1;
MainLoadFailed ==
    /\ mainPc = "Loaded"
    /\ loadResult = "false"
    /\ exitStatus' = 1
    /\ mainPc' = "Exited"
    /\ UNCHANGED <<file, lineNumber, processes, loadResult, diag>>
    /\ UNCHANGED <<dinerVars, philLog, simVars, procVars>>

\* procSim.executeProcesses();
MainExecute ==
    /\ mainPc = "Loaded"
    /\ loadResult = "true"
    /\ mainPc' = "Execute"
    /\ UNCHANGED <<file, lineNumber, processes, loadResult, diag, exitStatus>>
    /\ UNCHANGED <<dinerVars, philLog, simVars, procVars>>

\* DiningPhilosophers philSim(3); philSim.simulate();
MainSimulate ==
    /\ mainPc = "Construct"
    /\ iterations' = MainIterations
    /\ simPc' = "Spawn"
    /\ mainPc' = "Simulate"
    /\ UNCHANGED <<forks, pc, cycle, held, forkOps, philLog, simI, philosophers, procVars>>
    /\ UNCHANGED <<file, lineNumber, processes, loadResult, diag, exitStatus>>

\* return 0;
MainReturn ==
    /\ mainPc = "Simulate"
    /\ simPc = "Returned"
    /\ exitStatus' = 0
    /\ mainPc' = "Exited"
    /\ UNCHANGED <<file, lineNumber, processes, loadResult, diag>>
    /\ UNCHANGED <<dinerVars, philLog, simVars, procVars>>

main == MainLoadFailed \/ MainExecute \/ MainSimulate \/ MainReturn

-----------------------------------------------------------------------------
(* The whole program, started on some processes.txt *)

InitMain ==
    /\ file \in {NoFile} \cup Files(MaxLines)
    /\ mainPc = "Open"
    /\ exitStatus = Running
    /\ InitProcs
    /\ InitDiners(0)
    /\ simPc = "Idle"

NextMain ==
    \/ loadProcesses
    \/ main
    \/ executeProcesses
    \/ \E j \in Proc : processWorker(j)
    \/ simulate
    \/ \E id \in Phil : philosopherWorker(id)

SpecMain == InitMain /\ [][NextMain]_vars

-----------------------------------------------------------------------------
(* Scheduling: every thread that can take a step eventually takes one.     *)

\* The scheduler never leaves the program idle while some thread can take
\* a step.  Fair scheduling of every thread implies it.
Fairness == WF_vars(Next)

SpecLive == Spec /\ Fairness

-----------------------------------------------------------------------------
(* Vocabulary of the properties *)

Range(q) == {q[n] : n \in 1 .. Len(q)}

Min2(a, b) == IF a <= b THEN a ELSE b
Max2(a, b) == IF a <= b THEN b ELSE a

\* The thread has been created and has not ended.
Alive(id) == pc[id] \notin {"NotStarted", "Terminated"}

AllTerminated == \A id \in Phil : pc[id] = "Terminated"

\* The fork the thread is calling lock() on, if it is in such a call.
InAcquire(id) == pc[id] \in {"LockFirst", "LockSecond"}
Wanted(id) == IF pc[id] = "LockFirst" THEN firstFork(id) ELSE secondFork(id)

\* The thread is inside lock() and the fork is held: it is blocked.
Blocked(id) == InAcquire(id) /\ forks[Wanted(id)] # Free

\* The wait-for graph: a blocked agent -> the fork it wants -> the agent
\* that holds that fork.  Free (no holder) when the agent waits for nothing.
WaitsFor(id) == IF Blocked(id) THEN forks[Wanted(id)] ELSE Free

\* The agent reached from id by following n edges of the wait-for graph.
RECURSIVE Walk(_, _)
Walk(id, n) ==
    IF n = 0 THEN id
    ELSE LET b == Walk(id, n - 1)
         IN  IF b = Free THEN Free ELSE WaitsFor(b)

WaitForAcyclic ==
    \A id \in Phil : \A n \in 1 .. NUM_PHILOSOPHERS : Walk(id, n) # id

-----------------------------------------------------------------------------
(* C1: with the ring arrangement and the ordered acquisition, in every     *)
(* reachable state of every interleaving the wait-for graph (agent blocked *)
(* in acquire -> fork -> agent holding it) has no cycle, and whenever some *)
(* agent has not terminated some agent can take a step.                    *)
C1_NoDeadlock ==
    /\ WaitForAcyclic
    /\ (\E id \in Phil : Alive(id)) =>
           \E id \in Phil : ENABLED philosopherWorker(id)

\* All agents but one are blocked in acquire at once: a chain of waits
\* that stops at the one agent that can still lock its fork.
C1_Witness == Cardinality({id \in Phil : Blocked(id)}) = NUM_PHILOSOPHERS - 1

(* C2: in every reachable state each fork is held by at most one agent,    *)
(* and the forks two distinct agents hold at the same instant are          *)
(* disjoint.                                                               *)
C2_MutualExclusion ==
    /\ \A f \in Fork : Cardinality({id \in Phil : f \in Range(held[id])}) <= 1
    /\ \A a, b \in Phil : a # b => Range(held[a]) \cap Range(held[b]) = {}
    /\ \A f \in Fork : \A id \in Phil : f \in Range(held[id]) => forks[f] = id

\* Two agents hold two forks each at the same instant.
C2_Witness ==
    \E a, b \in Phil : a # b /\ Len(held[a]) = 2 /\ Len(held[b]) = 2

(* C3: in every cycle every agent requests min(left, right) first and      *)
(* max(left, right) second, the first index strictly smaller than the      *)
(* second, and requests the second only while it holds the first.          *)
C3_OrderingInvariant ==
    \A id \in Phil :
        LET lo == Min2(leftFork(id), rightFork(id))
            hi == Max2(leftFork(id), rightFork(id))
        IN  /\ pc[id] = "LockFirst" => Wanted(id) = lo /\ held[id] = <<>>
            /\ pc[id] = "LockSecond" =>
                   /\ Wanted(id) = hi
                   /\ held[id] = <<lo>>
                   /\ forks[lo] = id
                   /\ lo < Wanted(id)
            /\ Len(held[id]) = 2 => held[id] = <<lo, hi>> /\ held[id][1] < held[id][2]

\* The last agent, whose left fork has the larger index, holds both forks.
C3_Witness ==
    LET id == NUM_PHILOSOPHERS - 1
    IN  held[id] = <<rightFork(id), leftFork(id)>> /\ pc[id] = "UnlockLeft"

(* C4: for every iteration count, under fair scheduling every agent       *)
(* eventually reaches Terminated and simulate() eventually returns.        *)
C4_Termination == <>(simPc = "Returned" /\ AllTerminated)

\* simulate() has returned after every agent ran at least one cycle.
C4_Witness == simPc = "Returned" /\ AllTerminated /\ iterations >= 1

(* C5: simulate() creates exactly one worker per agent id 0..N-1, in that  *)
(* order, and has not returned while some worker has not reached           *)
(* Terminated.                                                             *)
C5_SimulateJoinsAll ==
    /\ philosophers = [n \in 1 .. Len(philosophers) |-> n - 1]
    /\ \A id \in Phil : pc[id] # "NotStarted" <=> id \in Range(philosophers)
    /\ simPc \in {"Join", "Returned"} => Len(philosophers) = NUM_PHILOSOPHERS
    /\ simPc = "Returned" => AllTerminated

\* All N workers run at the same time while simulate() waits in join.
C5_Witness == simPc = "Join" /\ \A id \in Phil : Alive(id) /\ cycle[id] < iterations

\* The sum of f over the philosophers.
RECURSIVE SumOver(_, _)
SumOver(f, S) ==
    IF S = {} THEN 0
    ELSE LET x == CHOOSE y \in S : TRUE
         IN  f[x] + SumOver(f, S \ {x})

\* Lines of one kind in the whole output.
Total(kind) == SumOver([id \in Phil |-> philLog.emitted[id][kind]], Phil)

(* C6: with iterations = k, an agent that has terminated has written       *)
(* exactly k "Starting cycle", k "Thinking", 2k "Acquired fork", k         *)
(* "Eating" and k "Released forks" lines and has unlocked a fork as many   *)
(* times as it locked one; with 5 agents and k = 1 the complete output has *)
(* 5 Thinking, 10 Acquired, 5 Eating and 5 Released lines.                 *)
C6_CompletionCounts ==
    /\ \A id \in Phil :
           pc[id] = "Terminated" =>
               /\ philLog.emitted[id]["Start"] = iterations
               /\ philLog.emitted[id]["Think"] = iterations
               /\ philLog.emitted[id]["Acquired"] = 2 * iterations
               /\ philLog.emitted[id]["Eat"] = iterations
               /\ philLog.emitted[id]["Released"] = iterations
               /\ forkOps[id].lock = 2 * iterations
               /\ forkOps[id].unlock = forkOps[id].lock
               /\ held[id] = <<>>
    /\ (simPc = "Returned" /\ iterations = 1) =>
           /\ Total("Think") = 5
           /\ Total("Acquired") = 10
           /\ Total("Eat") = 5
           /\ Total("Released") = 5

\* The run with one cycle per agent is complete.
C6_Witness == simPc = "Returned" /\ iterations = 1 /\ Total("Released") = 5

\* How far the thread is in its current cycle: the calls of log() of this
\* cycle that have returned.
InCycle(id) ==
    CASE pc[id] = "LogThink"    -> 1
      [] pc[id] = "LogWait"     -> 2
      [] pc[id] = "LockFirst"   -> 3
      [] pc[id] = "LogAcq1"     -> 3
      [] pc[id] = "LockSecond"  -> 4
      [] pc[id] = "LogAcq2"     -> 4
      [] pc[id] = "LogEat"      -> 5
      [] pc[id] = "UnlockLeft"  -> 6
      [] pc[id] = "UnlockRight" -> 6
      [] pc[id] = "LogReleased" -> 6
      [] OTHER                  -> 0

\* The calls of log() by the thread that have returned.
CallsReturned(id) ==
    7 * cycle[id] + InCycle(id) + (IF pc[id] = "Terminated" THEN 1 ELSE 0)

\* The threads between the lock and the unlock of log().
InWriteSection == {id \in Phil : philLog.stage[id] >= 1}

(* C7: at most one thread is inside the write section of log() at any      *)
(* instant; the calls of log() that have returned have produced exactly as *)
(* many complete lines, each one prefix followed by the same caller's      *)
(* message, and the incomplete line holds chunks of one caller only.       *)
C7_LogAtomicity ==
    /\ Cardinality(InWriteSection) <= 1
    /\ ~philLog.garbled
    /\ philLog.nLines = SumOver([id \in Phil |-> CallsReturned(id)], Phil)
    /\ InWriteSection = {} => philLog.lineBuf = <<>>
    /\ \A id \in Phil :
           /\ philLog.stage[id] >= 1 => philLog.mutex = id
           /\ philLog.stage[id] = 1 => philLog.lineBuf = <<>>
           /\ philLog.stage[id] = 2 => philLog.lineBuf = <<<<id, "prefix">>>>

\* All N threads are inside log() at once, one of them half-way through
\* its line.
C7_Witness ==
    /\ \A id \in Phil : pc[id] \in LogSites
    /\ \E id \in Phil : philLog.stage[id] = 2
    /\ philLog.nLines >= NUM_PHILOSOPHERS

\* The lines the thread has written if every call of log() that returned
\* wrote its line, in the order of the calls in philosopherWorker.
LinesOfCalls(id) ==
    LET c == cycle[id]
        p == InCycle(id)
        B(b) == IF b THEN 1 ELSE 0
    IN  [k \in Kinds |->
            CASE k = "Start"     -> c + B(p >= 1)
              [] k = "Think"     -> c + B(p >= 2)
              [] k = "Wait"      -> c + B(p >= 3)
              [] k = "Acquired"  -> 2 * c + B(p >= 4) + B(p >= 5)
              [] k = "Eat"       -> c + B(p >= 6)
              [] k = "Released"  -> c
              [] k = "Completed" -> B(pc[id] = "Terminated")]

(* C8: the lines of one caller are in the output in the order of its calls *)
(* of log() (at every instant they are the lines of the calls that have    *)
(* returned), and the k-th complete line of the output was written by the  *)
(* k-th call to lock the logger's mutex.                                   *)
C8_LogOrdering ==
    /\ philLog.last = philLog.nLines
    /\ \A id \in Phil :
           /\ philLog.ticket[id] # 0 => philLog.ticket[id] = philLog.nLines + 1
           /\ philLog.emitted[id] = LinesOfCalls(id)

\* Two agents wait at the lock of log() while a third, which locked it
\* after other lines were written, is about to write its line.
C8_Witness ==
    \E a, b, c \in Phil :
        /\ a # b /\ a # c /\ b # c
        /\ philLog.ticket[a] > NUM_PHILOSOPHERS
        /\ pc[b] \in LogSites /\ philLog.stage[b] = 0
        /\ pc[c] \in LogSites /\ philLog.stage[c] = 0

\* No thread of either scenario has been created.
NoThreads ==
    /\ threads = <<>>
    /\ \A j \in Proc : procPc[j] = "NotStarted"
    /\ philosophers = <<>>
    /\ \A id \in Phil : pc[id] = "NotStarted"

\* Every loaded process has had its thread, and the thread has ended.
ProcsComplete ==
    /\ Len(threads) = Len(processes)
    /\ \A j \in 1 .. Len(threads) : procPc[j] = "Terminated"

\* A line that makes the load fail: not empty, and not two integers that
\* are both positive.
Fails(line) ==
    /\ line # <<>>
    /\ \/ Len(line) < 2
       \/ ~IsInt(line[1])
       \/ ~IsInt(line[2])
       \/ ParseInt(line[1]) <= 0
       \/ ParseInt(line[2]) <= 0

\* What the outcome of the load allows: no thread and no status but 1 after
\* a failed load; status 0 only with both scenarios complete.
C9_State ==
    /\ loadResult = "false" =>
           /\ NoThreads
           /\ exitStatus \in {Running, 1}
           /\ diag.what \in {"open", "format", "pid", "burst"}
    /\ exitStatus = 1 => loadResult = "false"
    /\ exitStatus = 0 =>
           /\ loadResult = "true"
           /\ ProcsComplete
           /\ simPc = "Returned"
           /\ AllTerminated
    /\ mainPc = "Exited" => exitStatus \in {0, 1}

\* What one step may do: a failing open or line sets the result to false,
\* true is returned only at the end of the file, the result and the exit
\* status never change once set, and a failed load is followed by exit 1.
C9_Step ==
    /\ (mainPc = "Open" /\ ~file.opens) => loadResult' = "false"
    /\ (mainPc = "Read" /\ file.lines # <<>> /\ Fails(Head(file.lines))) =>
           loadResult' = "false"
    /\ (loadResult = "none" /\ loadResult' = "true") =>
           file.opens /\ file.lines = <<>>
    /\ loadResult # "none" => loadResult' = loadResult
    /\ (mainPc = "Loaded" /\ loadResult = "false") =>
           exitStatus' = 1 /\ mainPc' = "Exited"
    /\ exitStatus # Running => exitStatus' = exitStatus

(* C9: a file that cannot be opened, a malformed line, a process id <= 0   *)
(* (the line "0 5") or a burst time <= 0 makes loadProcesses return false; *)
(* after that the only step of the program is the exit with status 1, and  *)
(* no thread of either scenario is ever created.  loadProcesses returns    *)
(* true only at the end of a file it opened, and the program has exited    *)
(* with status 0 only after a successful load, with every process thread   *)
(* and every philosopher thread ended and simulate() returned.             *)
C9_LoadFailure == C9_State /\ [][C9_Step /\ C9_State']_vars

\* The line "0 5" was rejected for its process id and the program has
\* exited with status 1.
C9_Witness == exitStatus = 1 /\ diag.what = "pid" /\ loadResult = "false"

\* The process thread has been created and has not ended.
ProcAlive(j) == procPc[j] \notin {"NotStarted", "Terminated"}

(* C10: executeProcesses() creates one thread per loaded process, in the   *)
(* order of the file; it has returned only when every process thread has   *)
(* logged "Finished" and ended; a philosopher thread exists only after it  *)
(* has returned, so no process thread and no philosopher thread are alive  *)
(* at the same time.                                                       *)
C10_Sequential ==
    /\ \A j \in Proc : \A id \in Phil : ~(ProcAlive(j) /\ Alive(id))
    /\ threads = SubSeq(processes, 1, Len(threads))
    /\ \A j \in Proc : procPc[j] # "NotStarted" <=> j <= Len(threads)
    /\ (mainPc \in {"Construct", "Simulate"} \/ exitStatus = 0) =>
           /\ ProcsComplete
           /\ \A j \in 1 .. Len(processes) :
                  /\ procLog.emitted[j]["Started"] = 1
                  /\ procLog.emitted[j]["Finished"] = 1
    /\ (\E id \in Phil : pc[id] # "NotStarted") =>
           (mainPc \in {"Simulate", "Exited"} /\ ProcsComplete)
    /\ simPc # "Idle" => mainPc \in {"Simulate", "Exited"}

\* A philosopher thread runs after the threads of two loaded processes
\* have ended.
C10_Witness ==
    /\ \E id \in Phil : Alive(id)
    /\ Len(processes) >= 2
    /\ procLog.nLines = 2 * Len(processes)

(* C11: the fork assignment of the comments in the source: philosopher 0   *)
(* needs forks 0 and 4 and locks 0 then 4; philosopher 1 needs forks 1 and *)
(* 0 and locks 0 then 1; philosopher 4 needs forks 4 and 3 and locks 3     *)
(* then 4.  (The code gives philosopher id the forks id and (id+1) mod 5.) *)
C11_DocumentedForks ==
    /\ Len(held[0]) = 2 => held[0] = <<0, 4>>
    /\ Len(held[1]) = 2 => held[1] = <<0, 1>>
    /\ Len(held[4]) = 2 => held[4] = <<3, 4>>

\* The forks assigned to the agent.
Assigned(id) == {leftFork(id), rightFork(id)}

\* The protocol state of an agent, read off the next operation of its thread.
Thinking(id) == pc[id] \in {"LogStart", "LogThink", "LogWait"}
AcquiringFirst(id) == pc[id] = "LockFirst"
AcquiringSecond(id) == pc[id] \in {"LogAcq1", "LockSecond"}
Eating(id) == pc[id] \in {"LogAcq2", "LogEat", "UnlockLeft"}
Releasing(id) == pc[id] \in {"UnlockRight", "LogReleased"}

\* What an agent holds in each protocol state.
C12_State ==
    \A id \in Phil :
        /\ Thinking(id) => held[id] = <<>>
        /\ AcquiringFirst(id) => held[id] = <<>>
        /\ AcquiringSecond(id) => held[id] = <<firstFork(id)>>
        /\ Eating(id) =>
               /\ Len(held[id]) = 2
               /\ Range(held[id]) = Assigned(id)
               /\ \A f \in Assigned(id) : forks[f] = id
        /\ pc[id] \in {"NotStarted", "LogCompleted", "Terminated"} => held[id] = <<>>
        /\ \A f \in Fork : forks[f] = id <=> f \in Range(held[id])

\* A terminated agent stays terminated and locks and unlocks nothing.
C12_Step ==
    \A id \in Phil :
        pc[id] = "Terminated" =>
            /\ pc'[id] = "Terminated"
            /\ forkOps'[id] = forkOps[id]
            /\ held'[id] = <<>>

(* C12: in every reachable state an agent that is thinking or starting a   *)
(* cycle holds no fork, an agent waiting for its first fork holds no fork, *)
(* an agent waiting for its second fork holds exactly its first fork, an   *)
(* eating agent holds exactly its two assigned forks, and a terminated     *)
(* agent holds no fork and never locks or unlocks again.                   *)
C12_Holdings == C12_State /\ [][C12_Step /\ C12_State']_vars

\* One agent eats, one waits for its second fork holding its first, one
\* waits for its first fork and one has terminated.
C12_Witness ==
    \E a, b, c, d \in Phil :
        /\ pc[a] = "UnlockLeft" /\ Len(held[a]) = 2
        /\ pc[b] = "LockSecond" /\ Len(held[b]) = 1
        /\ pc[c] = "LockFirst"
        /\ pc[d] = "Terminated" /\ forkOps[d].unlock = 2

(* C13: in every reachable state, an agent that is blocked in lock() on    *)
(* fork w and holds fork h has h < w.                                      *)
C13_NoHigherHeld ==
    \A id \in Phil :
        Blocked(id) => \A h \in Range(held[id]) : h < Wanted(id)

\* The last agent holds fork 0 and is blocked on fork N-1, which its
\* neighbour holds.
C13_Witness ==
    LET id == NUM_PHILOSOPHERS - 1
    IN  /\ Blocked(id)
        /\ held[id] = <<0>>
        /\ Wanted(id) = id
        /\ forks[id] = id - 1

(* C14: no agent calls lock() on a fork it holds (its two forks are        *)
(* distinct, and both are released before the next cycle's lock), and      *)
(* every unlock() of a fork is called by the agent that holds it.          *)
C14_NoProtocolViolation ==
    \A id \in Phil :
        /\ firstFork(id) # secondFork(id)
        /\ InAcquire(id) =>
               /\ Wanted(id) \notin Range(held[id])
               /\ forks[Wanted(id)] # id
        /\ pc[id] = "UnlockLeft" =>
               /\ forks[leftFork(id)] = id
               /\ leftFork(id) \in Range(held[id])
        /\ pc[id] = "UnlockRight" =>
               /\ forks[rightFork(id)] = id
               /\ rightFork(id) \in Range(held[id])
        /\ forkOps[id].unlock <= forkOps[id].lock

\* An agent in its second cycle is about to unlock its right fork, the only
\* one it still holds, while a neighbour is blocked on a fork.
C14_Witness ==
    \E id, n \in Phil :
        /\ pc[id] = "UnlockRight"
        /\ cycle[id] = 1
        /\ forkOps[id] = [lock |-> 4, unlock |-> 3, overtaken |-> 0]
        /\ held[id] = <<rightFork(id)>>
        /\ n # id /\ Blocked(n)

\* 1 for TRUE, 0 for FALSE.
Bit(b) == IF b THEN 1 ELSE 0

\* The position of a statement in the cycle of philosopherWorker.
Position(site) ==
    CASE site = "LogStart"    -> 0
      [] site = "LockFirst"   -> 1
      [] site = "LockSecond"  -> 2
      [] site = "UnlockLeft"  -> 3
      [] site = "UnlockRight" -> 4
      [] site = "LogReleased" -> 5
      [] OTHER                -> 6

\* The lines an agent has written when it is at position p of cycle c + 1:
\* the c earlier cycles complete, and of this cycle the lines that come
\* before p in the order Starting cycle, Thinking, Waiting for forks,
\* Acquired, Acquired, Eating, Released forks.
C15_Lines(id) ==
    LET c == cycle[id]
        p == Position(pc[id])
        in == pc[id] \notin {"NotStarted", "Terminated"}
    IN  /\ philLog.emitted[id]["Start"] = c + Bit(in /\ p >= 1)
        /\ philLog.emitted[id]["Think"] = c + Bit(in /\ p >= 1)
        /\ philLog.emitted[id]["Wait"] = c + Bit(in /\ p >= 1)
        /\ philLog.emitted[id]["Acquired"] = 2 * c + Bit(in /\ p >= 2) + Bit(in /\ p >= 3)
        /\ philLog.emitted[id]["Eat"] = c + Bit(in /\ p >= 3)
        /\ philLog.emitted[id]["Released"] = c
        /\ philLog.emitted[id]["Completed"] = Bit(pc[id] = "Terminated")
        /\ pc[id] = "Terminated" => c = iterations
        /\ in => c < iterations

\* The steps of an agent between its fork operations: from each statement
\* only to the next one of the cycle; after the release to the first lock
\* of the next cycle while cycles remain, to the end after the last one.
C15_Step ==
    \A id \in Phil :
        pc'[id] # pc[id] =>
            \/ pc[id] = "NotStarted" /\ pc'[id] = "LogStart" /\ cycle'[id] = 0
            \/ /\ pc[id] # "LogReleased"
               /\ Position(pc[id]) <= 4
               /\ Position(pc'[id]) = Position(pc[id]) + 1
               /\ cycle'[id] = cycle[id]
            \/ /\ pc[id] = "LogReleased"
               /\ cycle'[id] = cycle[id] + 1
               /\ pc'[id] = IF cycle[id] + 1 < iterations THEN "LockFirst" ELSE "Terminated"

(* C15: every agent goes through thinking, the lock of its first fork, the *)
(* lock of its second fork, eating and the release in that order, once per *)
(* cycle, starts the next cycle while cycles remain and ends after the     *)
(* last; its lines are, per cycle, Starting cycle, Thinking, Waiting for   *)
(* forks, Acquired, Acquired, Eating, Released forks, and the one          *)
(* "Completed all" line comes after the last Released line.                *)
C15_StateMachine ==
    /\ \A id \in Phil : C15_Lines(id)
    /\ [][C15_Step /\ \A id \in Phil : C15_Lines(id)']_vars

\* An agent is in its second cycle, between its two locks, while another
\* agent has ended.
C15_Witness ==
    \E a, b \in Phil :
        /\ pc[a] = "LockSecond" /\ cycle[a] = 1
        /\ pc[b] = "Terminated" /\ philLog.emitted[b]["Released"] = 2

\* The other agent that uses the second fork of agent w.
Neighbour(w) == CHOOSE n \in Phil \ {w} : secondFork(w) \in Assigned(n)

\* The number of cycles in which agent n has locked fork f so far: its
\* complete cycles, and the present one when it holds f or has released it.
LocksDone(n, f) ==
    cycle[n] + Bit(f \in Range(held[n]) \/ pc[n] \in {"UnlockRight", "LogReleased"})

(* C19: the only bound on the waiting of an agent for its second fork is   *)
(* the number of cycles of its neighbour: the neighbour has taken the      *)
(* contested fork past the waiting agent at most once per cycle it has     *)
(* run, so at most as many times as there are iterations, and nothing      *)
(* bounds it below that.                                                   *)
C19_OvertakenBound ==
    \A w \in Phil :
        /\ forkOps[w].overtaken > 0 => pc[w] = "LockSecond"
        /\ forkOps[w].overtaken <= LocksDone(Neighbour(w), secondFork(w))
        /\ LocksDone(Neighbour(w), secondFork(w)) <= iterations

\* An agent still waits for its second fork in its first cycle while its
\* neighbour has taken and released that fork in every one of its cycles
\* and has ended.
C19_Witness ==
    \E w \in Phil :
        /\ pc[w] = "LockSecond" /\ cycle[w] = 0
        /\ iterations >= 2
        /\ forkOps[w].overtaken = iterations
        /\ pc[Neighbour(w)] = "Terminated"
        /\ forks[secondFork(w)] = Free

\* Agent id has taken a step of its own in this transition.
Stepped(id) ==
    /\ pc[id] # "NotStarted"
    /\ pc'[id] # pc[id] \/ cycle'[id] # cycle[id] \/ held'[id] # held[id]

\* What a transition may change: the protocol state, the cycle counter and
\* the holdings of one agent only, and of the forks only those numbered id
\* and (id + 1) mod N of the agent that stepped.
C16_Step ==
    /\ iterations' = iterations
    /\ \A id \in Phil :
           Stepped(id) =>
               /\ \A o \in Phil \ {id} :
                      pc'[o] = pc[o] /\ cycle'[o] = cycle[o] /\ held'[o] = held[o]
               /\ \A f \in Fork :
                      forks'[f] # forks[f] =>
                          f \in {id, (id + 1) % NUM_PHILOSOPHERS}
    /\ \A f \in Fork :
           forks'[f] # forks[f] =>
               \E id \in {f, (f + NUM_PHILOSOPHERS - 1) % NUM_PHILOSOPHERS} :
                   /\ Stepped(id)
                   /\ {forks[f], forks'[f]} = {Free, id}

AllHoldLeft == \A id \in Phil : held[id] = <<leftFork(id)>> /\ forks[leftFork(id)] = id

(* C18: the state in which all N agents hold their left fork and wait for  *)
(* their right fork, the deadlock of the left-fork-first order, is never   *)
(* reached with the lower-index-first order of pickupForks.                *)
C18_NoCircularHold == ~AllHoldLeft

\* The nearest the agents come to it: agents 0 .. N - 2 hold their left fork
\* and the last agent, whose lower fork is fork 0, is blocked with nothing in
\* its hands.
C18_Witness ==
    /\ \A id \in Phil \ {NUM_PHILOSOPHERS - 1} : held[id] = <<leftFork(id)>>
    /\ held[NUM_PHILOSOPHERS - 1] = <<>>
    /\ Blocked(NUM_PHILOSOPHERS - 1)
    /\ Wanted(NUM_PHILOSOPHERS - 1) = 0

-----------------------------------------------------------------------------
(* putdownForks with its two unlocks in either order *)

\* forks[right].unlock(); as the first of the two unlocks.
UnlockRightFirst(id) ==
    /\ pc[id] = "UnlockLeft"
    /\ forks' = [forks EXCEPT ![rightFork(id)] = Free]
    /\ held' = [held EXCEPT ![id] = Without(@, rightFork(id))]
    /\ pc' = [pc EXCEPT ![id] = "UnlockLeftLast"]
    /\ forkOps' = [forkOps EXCEPT ![id].unlock = @ + 1]
    /\ UNCHANGED <<iterations, cycle, philLog, simVars, mainVars, procVars>>

\* A second unlock that leaves the left fork locked.
UnlockLeftLastKept(id) ==
    /\ pc[id] = "UnlockLeftLast"
    /\ held' = [held EXCEPT ![id] = Without(@, leftFork(id))]
    /\ pc' = [pc EXCEPT ![id] = "LogReleased"]
    /\ forkOps' = [forkOps EXCEPT ![id].unlock = @ + 1]
    /\ UNCHANGED <<iterations, forks, cycle, philLog, simVars, mainVars, procVars>>

\* forks[left].unlock(); as the second of the two unlocks.
UnlockLeftLast(id) ==
    /\ pc[id] = "UnlockLeftLast"
    /\ forks' = [forks EXCEPT ![leftFork(id)] = Free]
    /\ held' = [held EXCEPT ![id] = Without(@, leftFork(id))]
    /\ pc' = [pc EXCEPT ![id] = "LogReleased"]
    /\ forkOps' = [forkOps EXCEPT ![id].unlock = @ + 1]
    /\ UNCHANGED <<iterations, cycle, philLog, simVars, mainVars, procVars>>

\* A philosopher thread whose putdownForks unlocks in one order or the other.
philosopherWorkerEither(id) ==
    \/ philosopherWorker(id)
    \/ UnlockRightFirst(id)
    \/ UnlockLeftLast(id)

NextEither ==
    \/ \E id \in Phil : philosopherWorkerEither(id)
    \/ simulate

\* The diners with either release order.
SpecEither == Init /\ [][NextEither]_vars

\* The forks an agent has in its hands are the forks it owns.
HeldIsOwned ==
    \A id \in Phil : \A f \in Fork : forks[f] = id <=> f \in Range(held[id])

\* In the middle of putdownForks an agent holds the one fork it has not yet
\* unlocked, whichever that is.
HalfReleased ==
    \A id \in Phil :
        /\ pc[id] = "UnlockRight" => held[id] = <<rightFork(id)>>
        /\ pc[id] = "UnlockLeftLast" => held[id] = <<leftFork(id)>>

\* How far simulate() is: the threads it has created, then the threads it
\* has joined, then its return.
SimRank ==
    CASE simPc = "Spawn" -> simI
      [] simPc = "Join"  -> NUM_PHILOSOPHERS + 1 + simI
      [] OTHER           -> 2 * NUM_PHILOSOPHERS + 2

\* Nothing that measures the work done goes back: the steps of simulate(),
\* the lines written, the locks and the unlocks of every agent.
NoWorkUndone ==
    /\ SimRank' >= SimRank
    /\ philLog'.nLines >= philLog.nLines
    /\ \A id \in Phil :
           /\ forkOps'[id].lock >= forkOps[id].lock
           /\ forkOps'[id].unlock >= forkOps[id].unlock

\* Some work is done in the step.
SomeWorkDone ==
    \/ SimRank' > SimRank
    \/ philLog'.nLines > philLog.nLines
    \/ \E id \in Phil :
           \/ forkOps'[id].lock > forkOps[id].lock
           \/ forkOps'[id].unlock > forkOps[id].unlock

\* The work of a run is bounded by its iteration count.
WorkBounded ==
    /\ philLog.nLines <= NUM_PHILOSOPHERS * (7 * iterations + 1)
    /\ \A id \in Phil :
           /\ forkOps[id].lock <= 2 * iterations
           /\ forkOps[id].unlock <= forkOps[id].lock

\* While simulate() has not returned some thread can take a step.
NotStuck ==
    simPc # "Returned" =>
        \/ ENABLED simulate
        \/ \E id \in Phil : ENABLED philosopherWorkerEither(id)

(* C17: the order of the two unlocks in putdownForks does not matter: with *)
(* left then right as in the code, or right then left, forks are held by   *)
(* one agent at a time, forks are locked in increasing index, no state is  *)
(* a deadlock, also while an agent has released one fork only, and every   *)
(* agent terminates and simulate() returns: until simulate() has returned  *)
(* some thread can take a step, every step adds to the work done and       *)
(* undoes none, and the work of a run is bounded.                          *)
C17_ReleaseOrderFree ==
    /\ [](C2_MutualExclusion /\ C3_OrderingInvariant /\ HeldIsOwned /\ HalfReleased)
    /\ [](WaitForAcyclic /\ NotStuck /\ WorkBounded)
    /\ [](simPc = "Returned" => AllTerminated)
    /\ [][NoWorkUndone /\ SomeWorkDone]_vars

\* An agent has unlocked its right fork first and still holds its left fork,
\* and its right neighbour has already locked the fork it released, while
\* another agent releases in the order of the code.
C17_Witness ==
    \E id, o \in Phil :
        /\ pc[id] = "UnlockLeftLast"
        /\ held[id] = <<leftFork(id)>>
        /\ forks[rightFork(id)] = (id + 1) % NUM_PHILOSOPHERS
        /\ pc[o] = "UnlockRight"

-----------------------------------------------------------------------------
\* The thread is at the lock_guard of log() and another thread holds
\* coutMutex: it is blocked on the output lock.
LogBlocked(id) ==
    /\ pc[id] \in LogSites
    /\ philLog.stage[id] = 0
    /\ philLog.mutex \notin {Free, id}

\* The wait-for graph with the output lock added: an agent blocked on a fork
\* waits for the fork's holder, an agent blocked in log() for the holder of
\* coutMutex.
WaitsForAny(id) ==
    IF Blocked(id) THEN forks[Wanted(id)]
    ELSE IF LogBlocked(id) THEN philLog.mutex
    ELSE Free

\* No cycle in it: following N edges from any agent ends at an agent that
\* waits for nothing.
WaitForAnyAcyclic ==
    LET w == [id \in Phil \cup {Free} |->
                 IF id = Free THEN Free ELSE WaitsForAny(id)]
    IN  \A id \in Phil : w[w[w[w[w[id]]]]] = Free

\* The forks a thread has in its hands during the call of log() at site.
HeldAt(id, site) ==
    CASE site = "LogAcq1" -> <<firstFork(id)>>
      [] site \in {"LogAcq2", "LogEat"} -> <<firstFork(id), secondFork(id)>>
      [] OTHER -> <<>>

(* C20: the output lock is a leaf lock: its holder is inside log() with    *)
(* the no, one or two forks it had at the call, is in no lock() of a fork  *)
(* or of the output lock, waits for nothing and can always take its next   *)
(* step; every lock of the output lock is released after one line; and     *)
(* the wait-for graph with the output lock added has no cycle.             *)
C20_LeafLock ==
    /\ \A h \in Phil :
           philLog.mutex = h =>
               /\ pc[h] \in LogSites
               /\ philLog.stage[h] \in {1, 2}
               /\ held[h] = HeldAt(h, pc[h])
               /\ ~InAcquire(h) /\ ~LogBlocked(h)
               /\ WaitsForAny(h) = Free
               /\ ENABLED (LogPrefix(h) \/ LogMessage(h))
    /\ philLog.nLocks = philLog.nLines + Bit(philLog.mutex # Free)
    /\ WaitForAnyAcyclic

\* The holder of the output lock holds two forks; an agent holding one fork
\* and an agent holding none wait for the output lock, and a fourth agent
\* waits for the fork of the one that waits for the output lock.
C20_Witness ==
    \E h, w, z, b \in Phil :
        /\ philLog.mutex = h /\ Len(held[h]) = 2
        /\ LogBlocked(w) /\ Len(held[w]) = 1
        /\ LogBlocked(z) /\ held[z] = <<>>
        /\ Blocked(b) /\ forks[Wanted(b)] = w

-----------------------------------------------------------------------------
\* The forks the output shows in the hands of agent id: of its "Acquired
\* fork" lines those that no "Released forks" line of the agent has followed,
\* the first of a cycle naming firstFork, the second secondFork.
ShownHeld(id) ==
    LET open == philLog.emitted[id]["Acquired"] - 2 * philLog.emitted[id]["Released"]
    IN  CASE open = 0 -> {}
          [] open = 1 -> {firstFork(id)}
          [] OTHER    -> {firstFork(id), secondFork(id)}

(* C21: read as a trace, the output never shows a fork in the hands of two *)
(* agents: between an agent's "Acquired fork f" line and its next          *)
(* "Released forks" line there is no "Acquired fork f" line of another     *)
(* agent.                                                                  *)
C21_TraceExclusive ==
    \A a, b \in Phil : a # b => ShownHeld(a) \cap ShownHeld(b) = {}

-----------------------------------------------------------------------------
\* The agents that are eating: both forks locked, neither unlocked yet.
EatingNow == {id \in Phil : Eating(id)}

(* C23: two agents that sit next to each other, id and (id + 1) mod N, are *)
(* never eating at the same instant, and at most N div 2 agents eat at the *)
(* same instant.                                                           *)
C23_NoAdjacentEating ==
    /\ \A id \in Phil : ~(Eating(id) /\ Eating((id + 1) % NUM_PHILOSOPHERS))
    /\ Cardinality(EatingNow) <= NUM_PHILOSOPHERS \div 2

\* N div 2 agents eat at once, the last agent among them, and every other
\* agent has started.
C23_Witness ==
    /\ Cardinality(EatingNow) = NUM_PHILOSOPHERS \div 2
    /\ (NUM_PHILOSOPHERS - 1) \in EatingNow
    /\ \A id \in Phil \ EatingNow : pc[id] \in {"LockFirst", "LockSecond"}

\* The fork agent id asks for first and the fork it asks for second, as the
\* ring has them: left then right for all agents but the last.
RingFirst(id) == IF id < NUM_PHILOSOPHERS - 1 THEN id ELSE 0
RingSecond(id) == IF id < NUM_PHILOSOPHERS - 1 THEN id + 1 ELSE NUM_PHILOSOPHERS - 1

-----------------------------------------------------------------------------
\* No fork is locked and nobody holds a fork.
ForksAllFree ==
    /\ \A f \in Fork : forks[f] = Free
    /\ \A id \in Phil : held[id] = <<>>

\* coutMutex is unlocked and no thread is inside log().
OutputLockFree ==
    /\ philLog.mutex = Free
    /\ philLog.lineBuf = <<>>
    /\ \A id \in Phil : philLog.stage[id] = 0

(* C25: when simulate() has returned every fork is free and the output     *)
(* lock is free, for every iteration count; with 0 iterations no worker    *)
(* ever locks a fork and the only line a worker writes is its completion   *)
(* line.                                                                   *)
C25_AllFreeAtReturn ==
    /\ simPc = "Returned" =>
           /\ ForksAllFree
           /\ OutputLockFree
           /\ \A id \in Phil : forkOps[id].unlock = 2 * iterations
           /\ \A id \in Phil : philLog.emitted[id]["Completed"] = 1
    /\ iterations = 0 =>
           /\ ForksAllFree
           /\ \A id \in Phil :
                  /\ forkOps[id].lock = 0
                  /\ pc[id] \in {"NotStarted", "LogCompleted", "Terminated"}
                  /\ \A k \in DOMAIN philLog.emitted[id] :
                         k # "Completed" => philLog.emitted[id][k] = 0

\* simulate() has returned from a run in which every worker locked and
\* unlocked its two forks and wrote all its lines.
C25_Witness ==
    /\ simPc = "Returned"
    /\ iterations >= 1
    /\ \A id \in Phil : forkOps[id].lock = 2 /\ forkOps[id].unlock = 2
    /\ philLog.nLocks = philLog.nLines
    /\ philLog.nLines >= NUM_PHILOSOPHERS

\* simulate() has returned from the run with no cycle: the output is the N
\* completion lines.
C25_ZeroIterations ==
    simPc = "Returned" /\ iterations = 0 /\ philLog.nLines = NUM_PHILOSOPHERS

-----------------------------------------------------------------------------
\* Timestamp a is not later than timestamp b.
StampLeq(a, b) == a.sec < b.sec \/ (a.sec = b.sec /\ a.milli <= b.milli)

\* A thread that has read the clock inside log() has a timestamp between
\* that of the latest complete line and the present time.
C22_State ==
    \A h \in Phil :
        philLog.stage[h] = 2 =>
            /\ StampLeq(philLog.lastStamp, philLog.stamp[h])
            /\ StampLeq(philLog.stamp[h], getTimestamp(philLog.now))

\* A line that is completed carries a timestamp not earlier than the line
\* before it.
C22_Step ==
    philLog'.nLines = philLog.nLines + 1 =>
        StampLeq(philLog.lastStamp, philLog'.lastStamp)

(* C22: the elapsed time is read from the monotonic clock inside the       *)
(* critical section of log(), so the timestamps of the lines of one        *)
(* simulation are non-decreasing in the order of the output, whichever     *)
(* threads wrote them.                                                     *)
C22_TimestampsOrdered == []C22_State /\ [][C22_Step]_vars

\* Lines with a later timestamp than the first have been written, the
\* clock has passed a whole second, and a thread that read the clock before
\* the last advance is about to write its line.
C22_Witness ==
    \E h \in Phil :
        /\ philLog.nLines >= 2
        /\ philLog.lastStamp.milli >= 1
        /\ philLog.stage[h] = 2
        /\ philLog.stamp[h] # getTimestamp(philLog.now)
        /\ philLog.stamp[h].sec >= 1

=============================================================================
